---- MODULE Spec2Model ----
(***************************************************************************)
(* The three one-shot Discord tools of the repository                      *)
(*   Delete_Bot_DMs_With_User.py  (tool "purge")                           *)
(*   List_Guild_Invites.py        (tool "invites")                         *)
(*   List_Guilds.py               (tool "guilds")                          *)
(* Each main() creates a client and a future `done`, registers an on_ready *)
(* handler that resolves `done`, starts the connection loop as a task,     *)
(* waits for `done`, closes the client, awaits the task and maps the       *)
(* outcome to an exit code.                                                *)
(***************************************************************************)
EXTENDS Integers, Sequences, FiniteSets, TLC

\* ------------------------------------------------------------------ bounds
\* longest DM history streamed by the purge
MaxHist == 3
\* number of guilds in the client's cache (guilds tool)
MaxGuilds == 2
\* number of invites guild.invites() returns
MaxInv == 2
\* number of channels in the guild's cache
MaxChan == 2
\* largest channel position
MaxPos == 1

\* ------------------------------------------------------------------ helpers
\* all sequences over S of length at most n
SeqsUpTo(S, n) == UNION {[1..k -> S] : k \in 0..n}

Tools == {"purge", "invites", "guilds"}

\* authors of a DM message: the bot itself (client.user.id) or the other party
Authors == {"me", "other"}

\* ways an awaited REST call of the client library can end
\* ("other" is any exception that is neither Forbidden/NotFound nor HTTPException)
FetchUserResults == {"ok", "NotFound", "HTTPException", "other"}
CreateDMResults == {"DMChannel", "GroupChannel", "HTTPException", "other"}
DeleteResults == {"ok", "Forbidden", "HTTPException", "other"}

VARIABLES
    tool,        \* which of the three programs runs
    args,        \* parsed command line (the fields the handlers read)
    pcMain,      \* position of main(): "args", "wait", "await_task", "result", "exited"
    exitCode,    \* process exit status, -1 while running
    crashed,     \* TRUE when main() ended by an uncaught exception (done.result() re-raised)
    interrupted, \* TRUE when the run was ended by KeyboardInterrupt
    taskState,   \* the run() task: "none", "starting", "connected", "returned3", "returned0", "raised", "cancelled"
    session,     \* the client: "none", "connecting", "ready", "closed"
    closeCount,  \* number of client.close() invocations
    done,        \* the future: "pending", "true", "false", "exc"
    pcH,         \* position of on_ready: "idle", ..., "finished", "cancelled"
    summary,     \* TRUE once the final output has been printed
    \* --- purge
    history,     \* messages of the DM channel, oldest first (authors)
    idx,         \* ordinal of the next message the async-for delivers
    stats,       \* [deleted, failed]
    deleteCalls, \* ordinals of the messages passed to message.delete(), in order
    outcomes,    \* how each delete call ended, in order
    userRes,     \* how client.fetch_user ended ("none" before the call)
    dmRes,       \* how user.create_dm ended ("none" before the call)
    histRes,     \* the history stream: "none", "streaming", "exhausted", "error"
    \* --- guilds
    clientGuilds,\* client.guilds: the cached guilds (name keys)
    data,        \* data["guilds"]
    \* --- invites
    guild,       \* the local `guild`: "none" before the lookup, "found", "unresolved"
    fetchRes,    \* how guild.invites() ended ("none" before the call)
    fetched,     \* what guild.invites() returned (<<>> when it failed)
    guildHasInvites, \* whether the guild has any invite on the platform
    invites,     \* the local list `invites`
    channel,     \* the local `channel` while the creation call is pending, else None
    createRes,   \* "none", "no_channel", or how channel.create_invite ended
    calls,       \* the invite calls issued to the platform, in order
    results,     \* results["invites"], results["created_invite"]
    \* --- choose_channel_for_invite on its own
    pcC,         \* "unused", "call", "returned"
    chooseIn,    \* [guild, preferred_id, fetch]
    chooseOut    \* what the call returned

orchVars == <<tool, args, pcMain, exitCode, crashed, interrupted, taskState,
              session, closeCount, done, pcH, summary>>
purgeVars == <<history, idx, stats, deleteCalls, outcomes, userRes, dmRes, histRes>>
guildsVars == <<clientGuilds, data>>
invVars == <<guild, fetchRes, fetched, guildHasInvites, invites, channel, createRes,
             calls, results>>
chooseVars == <<pcC, chooseIn, chooseOut>>
vars == <<orchVars, purgeVars, guildsVars, invVars, chooseVars>>

\* ------------------------------------------------------------------ pure helpers of the code

\* the sort key of List_Guilds.py: (x["name"] or "").lower(); a guild is
\* modelled by the rank of its lower-cased name
GuildKey(g) == g

\* list.sort(key=...) on data["guilds"]: stable, ascending by key
RECURSIVE InsertGuild(_, _)
InsertGuild(s, x) ==
    IF s = <<>> THEN <<x>>
    ELSE IF GuildKey(x) < GuildKey(Head(s)) THEN <<x>> \o s
    ELSE <<Head(s)>> \o InsertGuild(Tail(s), x)

RECURSIVE SortGuilds(_)
SortGuilds(s) ==
    IF s = <<>> THEN <<>>
    ELSE InsertGuild(SortGuilds(SubSeq(s, 1, Len(s) - 1)), s[Len(s)])

\* Python's None where an id is expected (args.channel_id, guild.system_channel, a channel)
None == -1

\* ---- invites: the data of List_Guild_Invites.py

\* channel names by rank; 0 is a missing name (getattr(inv.channel, "name", None))
Names == {0, 1, 2}

\* an invite as the handler reads it: code, name of its channel, revoked flag
InviteRecs == [code : 1..MaxInv, channel_name : Names, revoked : BOOLEAN]

\* what guild.invites() can return: invites with distinct codes, in any order
InviteLists ==
    {s \in SeqsUpTo(InviteRecs, MaxInv) :
        \A i, j \in 1..Len(s) : i # j => s[i].code # s[j].code}

\* what channel.create_invite can return: a fresh, non-revoked invite
NewInvites == [code : {0, MaxInv + 1}, channel_name : Names, revoked : {FALSE}]

\* invite_record(inv): the dict built from an invite (the fields the handler reads)
invite_record(inv) ==
    [code |-> inv.code, channel_name |-> inv.channel_name, revoked |-> inv.revoked]

\* Mutant of should_create: --only-if-none is ignored
should_create_IgnoresOnlyIfNone(a, invs) == a.create

\* Mutant of should_create: --only-if-none suppresses creation whatever was fetched
should_create_NeverWithOnlyIfNone(a, invs) == a.create /\ ~a.only_if_none

\* Mutant of should_create: --only-if-none looks at the invites that are not revoked
should_create_OnActiveInvites(a, invs) ==
    a.create /\ (~a.only_if_none \/ \A i \in 1..Len(invs) : invs[i].revoked)

\* should_create = args.create and (not args.only_if_none or len(invites) == 0)
should_create(a, invs) == a.create /\ (~a.only_if_none \/ Len(invs) = 0)

\* Mutant of KeepRecord: revoked invites are never dropped
KeepRecord_KeepAll(rec, include_revoked) == TRUE

\* `if not args.include_revoked and rec.get("revoked"): continue` negated
KeepRecord(rec, include_revoked) == ~(~include_revoked /\ rec.revoked)

\* the sort key (r.get("channel_name") or "", r.get("code") or ""), compared as tuples
RecordLess(a, b) ==
    \/ a.channel_name < b.channel_name
    \/ (a.channel_name = b.channel_name /\ a.code < b.code)

\* results["invites"].sort(key=...): stable, ascending
RECURSIVE InsertRecord(_, _)
InsertRecord(s, x) ==
    IF s = <<>> THEN <<x>>
    ELSE IF RecordLess(x, Head(s)) THEN <<x>> \o s
    ELSE <<Head(s)>> \o InsertRecord(Tail(s), x)

RECURSIVE SortRecords(_)
SortRecords(s) ==
    IF s = <<>> THEN <<>>
    ELSE InsertRecord(SortRecords(SubSeq(s, 1, Len(s) - 1)), s[Len(s)])

\* the tail of on_ready: records of the kept invites, created_invite, the sort
FinalResults(invs, created, include_revoked) ==
    LET recs == [i \in 1..Len(invs) |-> invite_record(invs[i])]
        kept == SelectSeq(recs, LAMBDA r : KeepRecord(r, include_revoked))
    IN  [invites |-> SortRecords(kept), created_invite |-> created]

\* ---- invites: the guild and choose_channel_for_invite

\* a cached channel: text channels have a position that matters, "voice" stands
\* for any other channel with create_invite, "other" for one without
ChannelRecs ==
    [id : 1..MaxChan, kind : {"text"}, position : 0..MaxPos]
        \cup [id : 1..MaxChan, kind : {"voice", "other"}, position : {0}]

\* guild.channels: distinct ids, in cache order
ChannelSeqs ==
    {s \in SeqsUpTo(ChannelRecs, MaxChan) :
        \A i, j \in 1..Len(s) : i # j => s[i].id # s[j].id}

\* guild.text_channels
text_channels(g) == SelectSeq(g.channels, LAMBDA c : c.kind = "text")

\* a guild: its cached channels and its system channel (a cached text channel or None)
Guilds ==
    UNION {{[channels |-> cs, system_channel |-> sc] :
              sc \in {None} \cup {cs[i].id : i \in {j \in 1..Len(cs) : cs[j].kind = "text"}}}
           : cs \in ChannelSeqs}

\* args.channel_id: absent, 0, a cached id or an id that is not cached
PreferredIds == {None, 0} \cup (1..(MaxChan + 1))

\* ways guild.fetch_channel can end
FetchChannelResults == {"ok", "NotFound", "Forbidden", "HTTPException", "other"}

\* guild.get_channel(id): the cached channel, None when it is not cached
get_channel(g, id) ==
    IF \E i \in 1..Len(g.channels) : g.channels[i].id = id THEN id ELSE None

\* Mutant of ChannelLess: the key is the position alone
ChannelLess_PositionOnly(a, b) == a.position < b.position

\* the key lambda c: (c.position, c.id), compared as tuples
ChannelLess(a, b) ==
    \/ a.position < b.position
    \/ (a.position = b.position /\ a.id < b.id)

\* sorted(guild.text_channels, key=...)
RECURSIVE InsertChannel(_, _)
InsertChannel(s, x) ==
    IF s = <<>> THEN <<x>>
    ELSE IF ChannelLess(x, Head(s)) THEN <<x>> \o s
    ELSE <<Head(s)>> \o InsertChannel(Tail(s), x)

RECURSIVE SortChannels(_)
SortChannels(s) ==
    IF s = <<>> THEN <<>>
    ELSE InsertChannel(SortChannels(SubSeq(s, 1, Len(s) - 1)), s[Len(s)])

\* hasattr(ch, "create_invite")
HasCreateInvite(c) == c.kind \in {"text", "voice"}

\* for ch in guild.channels: if hasattr(ch, "create_invite"): return ch
RECURSIVE FirstInvitable(_)
FirstInvitable(cs) ==
    IF cs = <<>> THEN None
    ELSE IF HasCreateInvite(Head(cs)) THEN Head(cs).id
    ELSE FirstInvitable(Tail(cs))

\* the fallbacks of choose_channel_for_invite after the `if preferred_id:` block
FallbackChannel(g) ==
    IF g.system_channel # None THEN g.system_channel
    ELSE IF text_channels(g) # <<>> THEN Head(SortChannels(text_channels(g))).id
    ELSE FirstInvitable(g.channels)

\* Mutant of choose_channel_for_invite: an explicit id that does not resolve
\* falls through to the fallbacks (`pass` instead of `return None`)
choose_channel_FallsThrough(g, preferred_id, fetch) ==
    IF preferred_id # None /\ preferred_id # 0
    THEN IF get_channel(g, preferred_id) # None
         THEN [status |-> "ok", ch |-> preferred_id]
         ELSE CASE fetch = "ok" -> [status |-> "ok", ch |-> preferred_id]
                [] fetch \in {"NotFound", "Forbidden", "HTTPException"} ->
                       [status |-> "ok", ch |-> FallbackChannel(g)]
                [] OTHER -> [status |-> "raise", ch |-> None]
    ELSE [status |-> "ok", ch |-> FallbackChannel(g)]

\* choose_channel_for_invite(guild, preferred_id); `fetch` is how
\* guild.fetch_channel ends when it is called; status "raise" is an exception
\* the function does not catch
choose_channel_for_invite(g, preferred_id, fetch) ==
    IF preferred_id # None /\ preferred_id # 0
    THEN IF get_channel(g, preferred_id) # None
         THEN [status |-> "ok", ch |-> preferred_id]
         ELSE CASE fetch = "ok" -> [status |-> "ok", ch |-> preferred_id]
                [] fetch \in {"NotFound", "Forbidden", "HTTPException"} ->
                       [status |-> "ok", ch |-> None]
                [] OTHER -> [status |-> "raise", ch |-> None]
    ELSE [status |-> "ok", ch |-> FallbackChannel(g)]

\* every way `await choose_channel_for_invite(guild, args.channel_id)` can end
ChooseResults ==
    {choose_channel_for_invite(g, p, f) :
        g \in Guilds, p \in PreferredIds, f \in FetchChannelResults}

\* first state of on_ready for each tool
FirstHandlerStep(t) ==
    CASE t = "purge" -> "fetch_user"
      [] t = "invites" -> "get_guild"
      [] t = "guilds" -> "list"

\* Mutant of IsOwn: the author test is dropped
IsOwn_Everyone(author) == TRUE

\* `message.author.id != client.user.id: continue` negated
IsOwn(author) == author = "me"

\* Mutant of IsDMChannel: the channel type is not verified
IsDMChannel_Unchecked(ch) == TRUE

\* isinstance(dm_channel, discord.DMChannel)
IsDMChannel(ch) == ch = "DMChannel"

\* the counters after one message.delete() ended with `outcome`
StatsAfter(s, outcome) ==
    CASE outcome = "ok" -> [s EXCEPT !.deleted = @ + 1]
      [] outcome = "Forbidden" -> [s EXCEPT !.failed = @ + 1]
      [] outcome = "HTTPException" -> [s EXCEPT !.failed = @ + 1]
      [] OTHER -> s

\* Mutant of AfterDelete: a failed deletion ends the purge with Failure
AfterDelete_AbortOnFailure(outcome, sleepPos) ==
    CASE outcome = "ok" -> [pc |-> IF sleepPos THEN "sleep" ELSE "history", res |-> "pending"]
      [] outcome \in {"Forbidden", "HTTPException"} -> [pc |-> "finished", res |-> "false"]
      [] OTHER -> [pc |-> "finished", res |-> "exc"]

\* where on_ready continues after one message.delete() and what it writes to `done`:
\* success sleeps when args.sleep > 0, Forbidden/HTTPException fall through to the
\* next iteration, anything else reaches `except Exception` (done.set_exception)
AfterDelete(outcome, sleepPos) ==
    CASE outcome = "ok" -> [pc |-> IF sleepPos THEN "sleep" ELSE "history", res |-> "pending"]
      [] outcome \in {"Forbidden", "HTTPException"} -> [pc |-> "history", res |-> "pending"]
      [] OTHER -> [pc |-> "finished", res |-> "exc"]

\* what main() returns (or the interpreter reports) after `await task`:
\* purge/invites read done.result(): an exception re-raises (status 1), False
\* returns 1, True returns 0; guilds never reads the future and returns 0
ExitCodeOf(t, d) ==
    IF t = "guilds" THEN 0
    ELSE IF d = "true" THEN 0 ELSE 1

\* ------------------------------------------------------------------ initial state

PurgeIdle ==
    /\ idx = 1
    /\ stats = [deleted |-> 0, failed |-> 0]
    /\ deleteCalls = <<>>
    /\ outcomes = <<>>
    /\ userRes = "none"
    /\ dmRes = "none"
    /\ histRes = "none"

\* results = {"guild_id": guild_id, "invites": [], "created_invite": None}
\* (created_invite: <<>> is None, <<r>> is the record r)
EmptyResults == [invites |-> <<>>, created_invite |-> <<>>]

InvitesIdle ==
    /\ guild = "none"
    /\ fetchRes = "none"
    /\ fetched = <<>>
    /\ guildHasInvites = FALSE
    /\ invites = <<>>
    /\ channel = None
    /\ createRes = "none"
    /\ calls = <<>>
    /\ results = EmptyResults

ChooseUnused ==
    /\ pcC = "unused"
    /\ chooseIn = <<>>
    /\ chooseOut = <<>>

NoArgs == [sleepPos |-> FALSE, create |-> FALSE, only_if_none |-> FALSE,
           include_revoked |-> FALSE]

Init ==
    /\ tool \in Tools
    /\ pcMain = "args"
    /\ exitCode = -1
    /\ crashed = FALSE
    /\ interrupted = FALSE
    /\ taskState = "none"
    /\ session = "none"
    /\ closeCount = 0
    /\ done = "pending"
    /\ pcH = "idle"
    /\ summary = FALSE
    /\ PurgeIdle
    /\ data = <<>>
    /\ InvitesIdle
    /\ ChooseUnused
    /\ IF tool = "purge"
       THEN /\ args \in [sleepPos : BOOLEAN, create : {FALSE}, only_if_none : {FALSE},
                          include_revoked : {FALSE}]
            /\ history \in SeqsUpTo(Authors, MaxHist)
            /\ clientGuilds = <<>>
       ELSE IF tool = "guilds"
       THEN /\ args = NoArgs
            /\ history = <<>>
            /\ clientGuilds \in SeqsUpTo(1..2, MaxGuilds)
       ELSE /\ args \in [sleepPos : {FALSE}, create : BOOLEAN, only_if_none : BOOLEAN,
                          include_revoked : BOOLEAN]
            /\ history = <<>>
            /\ clientGuilds = <<>>

\* ------------------------------------------------------------------ main(): the orchestrator

\* token and target-id acquisition; on success the client, the future and the
\* handler exist and `task = asyncio.create_task(run())` is started, main()
\* then blocks in asyncio.wait({done})
MainStart ==
    /\ pcMain = "args"
    /\ \E tokenOk \in BOOLEAN, idOk \in BOOLEAN :
         IF tokenOk /\ (idOk \/ tool = "guilds")
         THEN /\ pcMain' = "wait"
              /\ taskState' = "starting"
              /\ session' = "connecting"
              /\ exitCode' = exitCode
         ELSE /\ pcMain' = "exited"
              /\ exitCode' = 2
              /\ UNCHANGED <<taskState, session>>
    /\ UNCHANGED <<tool, args, crashed, interrupted, closeCount, done, pcH, summary>>
    /\ UNCHANGED <<purgeVars, guildsVars>>
    /\ UNCHANGED <<invVars, chooseVars>>

\* Mutant of MainClose: `if not done.result(): return 1` placed before the close
MainClose_ReturnBeforeClose ==
    /\ pcMain = "wait"
    /\ done # "pending"
    /\ IF done = "true"
       THEN /\ closeCount' = closeCount + 1
            /\ session' = "closed"
            /\ pcMain' = "await_task"
            /\ exitCode' = exitCode
       ELSE /\ closeCount' = closeCount
            /\ session' = session
            /\ pcMain' = "exited"
            /\ exitCode' = 1
    /\ UNCHANGED <<tool, args, crashed, interrupted, taskState, done, pcH, summary>>
    /\ UNCHANGED <<purgeVars, guildsVars>>
    /\ UNCHANGED <<invVars, chooseVars>>

\* Mutant of MainClose: the close does not wait for the future
MainClose_NoWait ==
    /\ pcMain = "wait"
    /\ closeCount' = closeCount + 1
    /\ session' = "closed"
    /\ pcMain' = "await_task"
    /\ UNCHANGED <<tool, args, exitCode, crashed, interrupted, taskState, done, pcH, summary>>
    /\ UNCHANGED <<purgeVars, guildsVars>>
    /\ UNCHANGED <<invVars, chooseVars>>

\* asyncio.wait({done}) returns once the future is resolved; `await client.close()`
MainClose ==
    /\ pcMain = "wait"
    /\ done # "pending"
    /\ closeCount' = closeCount + 1
    /\ session' = "closed"
    /\ pcMain' = "await_task"
    /\ UNCHANGED <<tool, args, exitCode, crashed, interrupted, taskState, done, pcH, summary>>
    /\ UNCHANGED <<purgeVars, guildsVars>>
    /\ UNCHANGED <<invVars, chooseVars>>

\* Mutant of MainAwaitTask: main() goes on without awaiting the task
MainAwaitTask_NoWait ==
    /\ pcMain = "await_task"
    /\ pcMain' = "result"
    /\ UNCHANGED <<tool, args, exitCode, crashed, interrupted, taskState, session,
                   closeCount, done, pcH, summary>>
    /\ UNCHANGED <<purgeVars, guildsVars>>
    /\ UNCHANGED <<invVars, chooseVars>>

\* `try: await task / except Exception: pass`: the task's result is discarded
MainAwaitTask ==
    /\ pcMain = "await_task"
    /\ taskState \in {"returned0", "returned3", "raised"}
    /\ pcMain' = "result"
    /\ UNCHANGED <<tool, args, exitCode, crashed, interrupted, taskState, session,
                   closeCount, done, pcH, summary>>
    /\ UNCHANGED <<purgeVars, guildsVars>>
    /\ UNCHANGED <<invVars, chooseVars>>

\* the tail of main(): the exit status and the final output
MainResult ==
    /\ pcMain = "result"
    /\ pcMain' = "exited"
    /\ exitCode' = ExitCodeOf(tool, done)
    /\ crashed' = (tool # "guilds" /\ done = "exc")
    /\ summary' = (tool = "guilds" \/ done = "true")
    /\ UNCHANGED <<tool, args, interrupted, taskState, session, closeCount, done, pcH>>
    /\ UNCHANGED <<purgeVars, guildsVars>>
    /\ UNCHANGED <<invVars, chooseVars>>

\* KeyboardInterrupt while main() is suspended: main() is cancelled at its await,
\* asyncio.run cancels the remaining tasks, `raise SystemExit(130)`
Interrupt ==
    /\ pcMain \in {"wait", "await_task"}
    /\ pcMain' = "exited"
    /\ exitCode' = 130
    /\ interrupted' = TRUE
    /\ taskState' = IF taskState \in {"starting", "connected"} THEN "cancelled" ELSE taskState
    /\ pcH' = IF pcH \in {"idle", "finished"} THEN pcH ELSE "cancelled"
    /\ UNCHANGED <<tool, args, crashed, session, closeCount, done, summary>>
    /\ UNCHANGED <<purgeVars, guildsVars>>
    /\ UNCHANGED <<invVars, chooseVars>>

\* ------------------------------------------------------------------ run(): the connection loop

\* client.start raises discord.LoginFailure: run() prints and returns 3
ConnLoginFailure ==
    /\ taskState = "starting"
    /\ taskState' = "returned3"
    /\ UNCHANGED <<tool, args, pcMain, exitCode, crashed, interrupted, session,
                   closeCount, done, pcH, summary>>
    /\ UNCHANGED <<purgeVars, guildsVars>>
    /\ UNCHANGED <<invVars, chooseVars>>

\* the gateway reports ready: on_ready is dispatched
ConnReady ==
    /\ taskState = "starting"
    /\ taskState' = "connected"
    /\ session' = "ready"
    /\ pcH' = FirstHandlerStep(tool)
    /\ UNCHANGED <<tool, args, pcMain, exitCode, crashed, interrupted,
                   closeCount, done, summary>>
    /\ UNCHANGED <<purgeVars, guildsVars>>
    /\ UNCHANGED <<invVars, chooseVars>>

\* client.start ends before ready (returns, or raises something else than LoginFailure)
ConnEndsEarly ==
    /\ taskState = "starting"
    /\ \E r \in {"returned0", "raised"} : taskState' = r
    /\ UNCHANGED <<tool, args, pcMain, exitCode, crashed, interrupted, session,
                   closeCount, done, pcH, summary>>
    /\ UNCHANGED <<purgeVars, guildsVars>>
    /\ UNCHANGED <<invVars, chooseVars>>

\* after client.close() the connection loop ends: client.start returns or raises
ConnTerminates ==
    /\ taskState = "connected"
    /\ session = "closed"
    /\ \E r \in {"returned0", "raised"} : taskState' = r
    /\ UNCHANGED <<tool, args, pcMain, exitCode, crashed, interrupted, session,
                   closeCount, done, pcH, summary>>
    /\ UNCHANGED <<purgeVars, guildsVars>>
    /\ UNCHANGED <<invVars, chooseVars>>

\* ------------------------------------------------------------------ on_ready of List_Guilds.py

GuildsOnReady ==
    /\ tool = "guilds"
    /\ pcH = "list"
    /\ pcMain = "wait"
    /\ \E unexpected \in BOOLEAN :
         IF unexpected
         THEN /\ done' = "exc"
              /\ data' = data
         ELSE /\ done' = "true"
              /\ data' = SortGuilds(clientGuilds)
    /\ pcH' = "finished"
    /\ UNCHANGED <<tool, args, pcMain, exitCode, crashed, interrupted, taskState,
                   session, closeCount, summary>>
    /\ UNCHANGED <<purgeVars, clientGuilds>>
    /\ UNCHANGED <<invVars, chooseVars>>

\* ------------------------------------------------------------------ on_ready of Delete_Bot_DMs_With_User.py

\* user = await client.fetch_user(user_id)
PurgeFetchUser ==
    /\ tool = "purge"
    /\ pcH = "fetch_user"
    /\ pcMain = "wait"
    /\ \E r \in FetchUserResults :
         /\ userRes' = r
         /\ done' = CASE r = "ok" -> "pending"
                      [] r \in {"NotFound", "HTTPException"} -> "false"
                      [] OTHER -> "exc"
         /\ pcH' = IF r = "ok" THEN "create_dm" ELSE "finished"
    /\ UNCHANGED <<tool, args, pcMain, exitCode, crashed, interrupted, taskState,
                   session, closeCount, summary>>
    /\ UNCHANGED <<history, idx, stats, deleteCalls, outcomes, dmRes, histRes>>
    /\ UNCHANGED guildsVars
    /\ UNCHANGED <<invVars, chooseVars>>

\* dm_channel = await user.create_dm(), then the isinstance check
PurgeCreateDM ==
    /\ tool = "purge"
    /\ pcH = "create_dm"
    /\ pcMain = "wait"
    /\ \E r \in CreateDMResults :
         /\ dmRes' = r
         /\ IF r = "HTTPException"
            THEN done' = "false" /\ pcH' = "finished" /\ histRes' = histRes
            ELSE IF r = "other"
            THEN done' = "exc" /\ pcH' = "finished" /\ histRes' = histRes
            ELSE IF ~IsDMChannel(r)
            THEN done' = "false" /\ pcH' = "finished" /\ histRes' = histRes
            ELSE done' = done /\ pcH' = "history" /\ histRes' = "streaming"
    /\ UNCHANGED <<tool, args, pcMain, exitCode, crashed, interrupted, taskState,
                   session, closeCount, summary>>
    /\ UNCHANGED <<history, idx, stats, deleteCalls, outcomes, userRes>>
    /\ UNCHANGED guildsVars
    /\ UNCHANGED <<invVars, chooseVars>>

\* the async-for over dm_channel.history(limit=None, oldest_first=True) is
\* exhausted: done.set_result(True)
PurgeExhausted ==
    /\ tool = "purge"
    /\ pcH = "history"
    /\ pcMain = "wait"
    /\ idx > Len(history)
    /\ histRes' = "exhausted"
    /\ done' = "true"
    /\ pcH' = "finished"
    /\ UNCHANGED <<tool, args, pcMain, exitCode, crashed, interrupted, taskState,
                   session, closeCount, summary>>
    /\ UNCHANGED <<history, idx, stats, deleteCalls, outcomes, userRes, dmRes>>
    /\ UNCHANGED guildsVars
    /\ UNCHANGED <<invVars, chooseVars>>

\* fetching the next page of the history raises: `except Exception` captures it
PurgeHistoryError ==
    /\ tool = "purge"
    /\ pcH = "history"
    /\ pcMain = "wait"
    /\ histRes' = "error"
    /\ done' = "exc"
    /\ pcH' = "finished"
    /\ UNCHANGED <<tool, args, pcMain, exitCode, crashed, interrupted, taskState,
                   session, closeCount, summary>>
    /\ UNCHANGED <<history, idx, stats, deleteCalls, outcomes, userRes, dmRes>>
    /\ UNCHANGED guildsVars
    /\ UNCHANGED <<invVars, chooseVars>>

\* one iteration of the loop on a message that is not the bot's: `continue`
PurgeSkip ==
    /\ tool = "purge"
    /\ pcH = "history"
    /\ pcMain = "wait"
    /\ idx <= Len(history)
    /\ ~IsOwn(history[idx])
    /\ idx' = idx + 1
    /\ UNCHANGED orchVars
    /\ UNCHANGED <<history, stats, deleteCalls, outcomes, userRes, dmRes, histRes>>
    /\ UNCHANGED guildsVars
    /\ UNCHANGED <<invVars, chooseVars>>

\* one iteration of the loop on a message of the bot: await message.delete()
PurgeDelete ==
    /\ tool = "purge"
    /\ pcH = "history"
    /\ pcMain = "wait"
    /\ idx <= Len(history)
    /\ IsOwn(history[idx])
    /\ \E o \in DeleteResults :
         /\ deleteCalls' = Append(deleteCalls, idx)
         /\ outcomes' = Append(outcomes, o)
         /\ stats' = StatsAfter(stats, o)
         /\ pcH' = AfterDelete(o, args.sleepPos).pc
         /\ done' = AfterDelete(o, args.sleepPos).res
    /\ idx' = idx + 1
    /\ UNCHANGED <<tool, args, pcMain, exitCode, crashed, interrupted, taskState,
                   session, closeCount, summary>>
    /\ UNCHANGED <<history, userRes, dmRes, histRes>>
    /\ UNCHANGED guildsVars
    /\ UNCHANGED <<invVars, chooseVars>>

\* await asyncio.sleep(args.sleep) returns
PurgeWake ==
    /\ tool = "purge"
    /\ pcH = "sleep"
    /\ pcMain = "wait"
    /\ pcH' = "history"
    /\ UNCHANGED <<tool, args, pcMain, exitCode, crashed, interrupted, taskState,
                   session, closeCount, done, summary>>
    /\ UNCHANGED purgeVars
    /\ UNCHANGED guildsVars
    /\ UNCHANGED <<invVars, chooseVars>>

\* ------------------------------------------------------------------ on_ready of List_Guild_Invites.py

\* Mutant of InvGetGuild: an unresolved guild returns without resolving `done`
InvGetGuild_NoResolve ==
    /\ tool = "invites"
    /\ pcH = "get_guild"
    /\ pcMain = "wait"
    /\ \E r \in {"cached", "fetched", "HTTPException", "other"} :
         /\ guild' = IF r \in {"cached", "fetched"} THEN "found" ELSE "unresolved"
         /\ done' = IF r = "other" THEN "exc" ELSE "pending"
         /\ pcH' = IF r \in {"cached", "fetched"} THEN "fetch_invites" ELSE "finished"
    /\ UNCHANGED <<tool, args, pcMain, exitCode, crashed, interrupted, taskState,
                   session, closeCount, summary>>
    /\ UNCHANGED <<fetchRes, fetched, guildHasInvites, invites, channel, createRes,
                   calls, results>>
    /\ UNCHANGED <<purgeVars, guildsVars, chooseVars>>

\* guild = client.get_guild(guild_id), else await client.fetch_guild(guild_id)
InvGetGuild ==
    /\ tool = "invites"
    /\ pcH = "get_guild"
    /\ pcMain = "wait"
    /\ \E r \in {"cached", "fetched", "HTTPException", "other"} :
         /\ guild' = IF r \in {"cached", "fetched"} THEN "found" ELSE "unresolved"
         /\ done' = CASE r \in {"cached", "fetched"} -> "pending"
                      [] r = "HTTPException" -> "false"
                      [] OTHER -> "exc"
         /\ pcH' = IF r \in {"cached", "fetched"} THEN "fetch_invites" ELSE "finished"
    /\ UNCHANGED <<tool, args, pcMain, exitCode, crashed, interrupted, taskState,
                   session, closeCount, summary>>
    /\ UNCHANGED <<fetchRes, fetched, guildHasInvites, invites, channel, createRes,
                   calls, results>>
    /\ UNCHANGED <<purgeVars, guildsVars, chooseVars>>

\* Mutant of AfterFetch: an HTTP error of the fetch resolves False
AfterFetch_HTTPErrorAborts(r) ==
    CASE r = "other" -> "exc"
      [] r = "HTTPException" -> "false"
      [] OTHER -> "continue"

\* the try around guild.invites(): Forbidden and HTTPException are caught and
\* the handler continues; anything else reaches the outer `except Exception`
AfterFetch(r) == IF r = "other" THEN "exc" ELSE "continue"

\* invites = await guild.invites(), the should_create decision, and, when
\* nothing is to be created, the tail of the handler
InvFetchInvites ==
    /\ tool = "invites"
    /\ pcH = "fetch_invites"
    /\ pcMain = "wait"
    /\ calls' = Append(calls, "invites")
    /\ \E r \in {"ok", "Forbidden", "HTTPException", "other"} :
         /\ fetchRes' = r
         /\ \E L \in InviteLists, has \in BOOLEAN :
              /\ r = "ok" => has = (L # <<>>)
              /\ r # "ok" => L = <<>>
              /\ guildHasInvites' = has
              /\ fetched' = L
              /\ invites' = L
         /\ IF AfterFetch(r) # "continue"
            THEN /\ done' = AfterFetch(r)
                 /\ pcH' = "finished"
                 /\ results' = results
            ELSE IF should_create(args, invites')
            THEN /\ done' = done
                 /\ pcH' = "choose"
                 /\ results' = results
            ELSE /\ done' = "true"
                 /\ pcH' = "finished"
                 /\ results' = FinalResults(invites', <<>>, args.include_revoked)
    /\ UNCHANGED <<tool, args, pcMain, exitCode, crashed, interrupted, taskState,
                   session, closeCount, summary>>
    /\ UNCHANGED <<guild, channel, createRes>>
    /\ UNCHANGED <<purgeVars, guildsVars, chooseVars>>

\* channel = await choose_channel_for_invite(guild, args.channel_id); with no
\* channel the handler prints the diagnostic and runs its tail
InvChoose ==
    /\ tool = "invites"
    /\ pcH = "choose"
    /\ pcMain = "wait"
    /\ \E r \in ChooseResults :
         IF r.status = "raise"
         THEN /\ done' = "exc"
              /\ pcH' = "finished"
              /\ UNCHANGED <<channel, createRes, results>>
         ELSE IF r.ch = None
         THEN /\ createRes' = "no_channel"
              /\ done' = "true"
              /\ pcH' = "finished"
              /\ results' = FinalResults(invites, <<>>, args.include_revoked)
              /\ channel' = channel
         ELSE /\ channel' = r.ch
              /\ pcH' = "create"
              /\ UNCHANGED <<done, createRes, results>>
    /\ UNCHANGED <<tool, args, pcMain, exitCode, crashed, interrupted, taskState,
                   session, closeCount, summary>>
    /\ UNCHANGED <<guild, fetchRes, fetched, guildHasInvites, invites, calls>>
    /\ UNCHANGED <<purgeVars, guildsVars, chooseVars>>

\* Mutant of AfterCreate: a creation that fails with Forbidden/HTTPException
\* ends the handler with done.set_result(False)
AfterCreate_FailureAborts(o, invs, new_inv) ==
    CASE o = "ok" -> [invites |-> Append(invs, new_inv),
                      created |-> <<invite_record(new_inv)>>, res |-> "true"]
      [] o \in {"Forbidden", "HTTPException"} ->
                     [invites |-> invs, created |-> <<>>, res |-> "false"]
      [] OTHER -> [invites |-> invs, created |-> <<>>, res |-> "exc"]

\* Mutant of AfterCreate: `invites.append(new_inv)` is missing
AfterCreate_NoAppend(o, invs, new_inv) ==
    CASE o = "ok" -> [invites |-> invs,
                      created |-> <<invite_record(new_inv)>>, res |-> "true"]
      [] o \in {"Forbidden", "HTTPException"} ->
                     [invites |-> invs, created |-> <<>>, res |-> "true"]
      [] OTHER -> [invites |-> invs, created |-> <<>>, res |-> "exc"]

\* the try block around channel.create_invite: on success created_rec is set
\* and the invite appended; Forbidden/HTTPException print and go on to the
\* tail; anything else reaches `except Exception`
AfterCreate(o, invs, new_inv) ==
    CASE o = "ok" -> [invites |-> Append(invs, new_inv),
                      created |-> <<invite_record(new_inv)>>, res |-> "true"]
      [] o \in {"Forbidden", "HTTPException"} ->
                     [invites |-> invs, created |-> <<>>, res |-> "true"]
      [] OTHER -> [invites |-> invs, created |-> <<>>, res |-> "exc"]

\* with unique=False (the default of --unique) the platform may hand back an
\* invite that already exists: here one of the listed, non-revoked invites
ReusedInvites(invs) == {invs[i] : i \in {j \in 1..Len(invs) : ~invs[j].revoked}}

\* new_inv = await channel.create_invite(...), then the tail of the handler
InvCreate ==
    /\ tool = "invites"
    /\ pcH = "create"
    /\ pcMain = "wait"
    /\ calls' = Append(calls, "create_invite")
    /\ channel' = None
    /\ pcH' = "finished"
    /\ \E o \in {"ok", "Forbidden", "HTTPException", "other"} :
         /\ createRes' = o
         /\ \E new_inv \in NewInvites \cup ReusedInvites(invites) :
              LET a == AfterCreate(o, invites, new_inv)
              IN  /\ invites' = a.invites
                  /\ done' = a.res
                  /\ results' = IF a.res = "exc" THEN results
                                ELSE FinalResults(a.invites, a.created, args.include_revoked)
    /\ UNCHANGED <<tool, args, pcMain, exitCode, crashed, interrupted, taskState,
                   session, closeCount, summary>>
    /\ UNCHANGED <<guild, fetchRes, fetched, guildHasInvites>>
    /\ UNCHANGED <<purgeVars, guildsVars, chooseVars>>

\* ------------------------------------------------------------------ choose_channel_for_invite on its own

\* the handler is about to call choose_channel_for_invite: any guild, any
\* --channel-id, any outcome of guild.fetch_channel
InitChoose ==
    /\ tool = "invites"
    /\ args = [NoArgs EXCEPT !.create = TRUE]
    /\ pcMain = "wait"
    /\ exitCode = -1
    /\ crashed = FALSE
    /\ interrupted = FALSE
    /\ taskState = "connected"
    /\ session = "ready"
    /\ closeCount = 0
    /\ done = "pending"
    /\ pcH = "choose"
    /\ summary = FALSE
    /\ PurgeIdle
    /\ history = <<>>
    /\ clientGuilds = <<>>
    /\ data = <<>>
    /\ guild = "found"
    /\ fetchRes = "ok"
    /\ fetched = <<>>
    /\ guildHasInvites = FALSE
    /\ invites = <<>>
    /\ channel = None
    /\ createRes = "none"
    /\ calls = <<"invites">>
    /\ results = EmptyResults
    /\ pcC = "call"
    /\ chooseIn \in [guild : Guilds, preferred_id : PreferredIds, fetch : FetchChannelResults]
    /\ chooseOut = <<>>

\* the call returns (or raises)
ChooseChannel ==
    /\ pcC = "call"
    /\ pcC' = "returned"
    /\ chooseOut' = choose_channel_for_invite(chooseIn.guild, chooseIn.preferred_id,
                                              chooseIn.fetch)
    /\ UNCHANGED chooseIn
    /\ UNCHANGED <<orchVars, purgeVars, guildsVars, invVars>>

NextChoose == ChooseChannel

SpecChoose == InitChoose /\ [][NextChoose]_vars

\* ------------------------------------------------------------------ specification

Program ==
    \/ MainStart
    \/ MainClose
    \/ MainAwaitTask
    \/ MainResult
    \/ ConnLoginFailure
    \/ ConnReady
    \/ ConnEndsEarly
    \/ ConnTerminates
    \/ GuildsOnReady
    \/ PurgeFetchUser
    \/ PurgeCreateDM
    \/ PurgeExhausted
    \/ PurgeHistoryError
    \/ PurgeSkip
    \/ PurgeDelete
    \/ PurgeWake
    \/ InvGetGuild
    \/ InvFetchInvites
    \/ InvChoose
    \/ InvCreate

Next == Program \/ Interrupt

Spec == Init /\ [][Next]_vars

\* the event loop runs every runnable task; nothing forces a KeyboardInterrupt
FairSpec == Spec /\ WF_vars(Program)

\* ------------------------------------------------------------------ properties

\* the run has ended on one of main()'s own paths (a return, or done.result()
\* re-raising), after the connection task was started
EndedNormally == pcMain = "exited" /\ taskState # "none" /\ ~interrupted

\* number of messages of the history written by the bot
OwnCount == Cardinality({i \in 1..Len(history) : history[i] = "me"})

\* ordinals of the bot's messages, oldest first
RECURSIVE OwnUpTo(_)
OwnUpTo(n) ==
    IF n = 0 THEN <<>>
    ELSE IF history[n] = "me" THEN Append(OwnUpTo(n - 1), n) ELSE OwnUpTo(n - 1)

CountOutcomes(S) == Cardinality({i \in 1..Len(outcomes) : outcomes[i] \in S})

\* C1: client.close() is never invoked twice, and every run that started the
\* connection task and ended on one of main()'s own exit paths (handler
\* resolved True, resolved False, or captured an unexpected error) has
\* invoked it exactly once.
C1_ClosedExactlyOnce ==
    /\ closeCount <= 1
    /\ EndedNormally => (closeCount = 1 /\ session = "closed" /\ done # "pending")

\* C1 witness: a run whose handler raised an unexpected error ended with one close
C1_Witness ==
    EndedNormally /\ done = "exc" /\ closeCount = 1

\* C2: once client.start has failed with LoginFailure (run() returned 3), the
\* run ends with exit code 3: an ended run has exit code 3, and a run that has
\* not ended yet can still take a step of the program towards it.
C2_RejectedCredentialExits3 ==
    taskState = "returned3" =>
        IF pcMain = "exited" THEN exitCode = 3 ELSE ENABLED Program

\* C3: an ended run has exit code 0 only if `done` was resolved True, and a
\* run that ended on main()'s own path with `done` resolved False or with a
\* captured exception has exit code 1.
C3_ZeroOnlyOnSuccess ==
    pcMain = "exited" =>
        /\ (exitCode = 0 => done = "true")
        /\ (EndedNormally /\ done \in {"false", "exc"} => exitCode = 1)

\* C4: once a run that started the connection task has ended, interrupted or
\* not, the client has been closed.
C4_NotLeftOpen ==
    (pcMain = "exited" /\ taskState # "none") => (session = "closed" /\ closeCount >= 1)

\* C5: message.delete() is only ever invoked on messages of the bot, and when
\* the handler has finished after streaming the whole history with every
\* deletion succeeding, `done` is True, deleted = K and failed = 0.
C5_AllDeletionsSucceed ==
    /\ \A i \in 1..Len(deleteCalls) : history[deleteCalls[i]] = "me"
    /\ ( /\ tool = "purge"
         /\ pcH = "finished"
         /\ dmRes = "DMChannel"
         /\ histRes # "error"
         /\ \A i \in 1..Len(outcomes) : outcomes[i] = "ok" )
       => (done = "true" /\ stats.deleted = OwnCount /\ stats.failed = 0)

\* C5 witness: a mixed history of three messages, two of the bot, both deleted
C5_Witness ==
    /\ done = "true"
    /\ Len(history) = 3
    /\ OwnCount = 2
    /\ stats = [deleted |-> 2, failed |-> 0]
    /\ Len(deleteCalls) = 2

\* C6: every deletion that ended with Forbidden or HTTPException is counted
\* once in failed and not in deleted, and when the handler has finished after
\* the history was streamed without any other kind of error, `done` is True
\* and every message of the bot was passed to delete, in order.
C6_FailureIsContained ==
    /\ stats.failed = CountOutcomes({"Forbidden", "HTTPException"})
    /\ stats.deleted = CountOutcomes({"ok"})
    /\ ( /\ tool = "purge"
         /\ pcH = "finished"
         /\ dmRes = "DMChannel"
         /\ histRes # "error"
         /\ \A i \in 1..Len(outcomes) : outcomes[i] # "other" )
       => (done = "true" /\ deleteCalls = OwnUpTo(Len(history)))

\* C6 witness: a Forbidden deletion followed by a successful one, run resolved True
C6_Witness ==
    /\ done = "true"
    /\ Len(outcomes) >= 2
    /\ outcomes[1] = "Forbidden"
    /\ outcomes[2] = "ok"
    /\ stats = [deleted |-> 1, failed |-> 1]

\* C7: when a purge run has ended (here: on one of main()'s own exit paths),
\* deleted + failed equals the number of delete calls issued, however each
\* call ended.
C7_StatsSumToCalls ==
    (EndedNormally /\ tool = "purge") =>
        stats.deleted + stats.failed = Len(deleteCalls)

\* C8: if fetch_user ended with NotFound or HTTPException, create_dm ended
\* with HTTPException, or the channel returned is not a DMChannel, `done` is
\* False and no delete call has been issued.
C8_SetupFailureNoDelete ==
    (userRes \in {"NotFound", "HTTPException"} \/ dmRes \in {"HTTPException", "GroupChannel"})
        => (done = "false" /\ pcH = "finished" /\ deleteCalls = <<>>)

\* C8 witness: a run on a non-DM channel ended with exit code 1, history not empty
C8_Witness ==
    /\ dmRes = "GroupChannel"
    /\ OwnCount >= 1
    /\ pcMain = "exited"
    /\ exitCode = 1

\* C9: a creation call is issued (or about to be issued) only if --create is
\* set and (--only-if-none is not set or guild.invites() returned nothing), and
\* only after the invites call; with --only-if-none and a fetched list holding
\* a non-revoked invite, no creation call is issued and created_invite is None.
C9_CreationOnlyWhenAllowed ==
    /\ \A i \in 1..Len(calls) :
          calls[i] = "create_invite" =>
              /\ args.create
              /\ ~args.only_if_none \/ fetched = <<>>
              /\ \E j \in 1..(i - 1) : calls[j] = "invites"
    /\ pcH \in {"choose", "create"} =>
          /\ args.create
          /\ ~args.only_if_none \/ fetched = <<>>
          /\ calls = <<"invites">>
    /\ (args.only_if_none /\ \E i \in 1..Len(fetched) : ~fetched[i].revoked) =>
          /\ \A i \in 1..Len(calls) : calls[i] # "create_invite"
          /\ pcH \notin {"choose", "create"}
          /\ results.created_invite = <<>>

\* C9 witness: --create --only-if-none, a non-revoked invite was fetched, the
\* run ended with exit code 0 after the invites call alone
C9_Witness ==
    /\ tool = "invites"
    /\ args.create
    /\ args.only_if_none
    /\ \E i \in 1..Len(fetched) : ~fetched[i].revoked
    /\ pcMain = "exited"
    /\ exitCode = 0
    /\ calls = <<"invites">>
    /\ results.created_invite = <<>>

\* the explicit id resolves: it is cached, or guild.fetch_channel returns it
\* (no channel has id 0)
Resolvable(in) ==
    /\ in.preferred_id \notin {None, 0}
    /\ get_channel(in.guild, in.preferred_id) # None \/ in.fetch = "ok"

\* ids of the text channels whose position no other text channel undercuts
LowestTextIds(g) ==
    {g.channels[i].id : i \in
        {j \in 1..Len(g.channels) :
            /\ g.channels[j].kind = "text"
            /\ \A k \in 1..Len(g.channels) :
                  g.channels[k].kind = "text" =>
                      g.channels[j].position <= g.channels[k].position}}

\* indices of the cached channels that can create invites
InvitableIdx(g) == {j \in 1..Len(g.channels) : g.channels[j].kind \in {"text", "voice"}}

\* steps (2) to (4): system channel, else a lowest-position text channel, else
\* the first cached channel that can create invites, else no channel
IsFallbackOf(ch, g) ==
    IF g.system_channel # None THEN ch = g.system_channel
    ELSE IF LowestTextIds(g) # {} THEN ch \in LowestTextIds(g)
    ELSE IF InvitableIdx(g) # {}
         THEN \E j \in InvitableIdx(g) :
                 /\ ch = g.channels[j].id
                 /\ \A k \in InvitableIdx(g) : j <= k
    ELSE ch = None

\* C10 as claimed: the explicit channel if provided and resolvable, otherwise
\* the system channel, otherwise the lowest-position text channel, otherwise
\* the first channel that can create invites; no channel only when none of
\* the four yields one.
C10_StrictFallback ==
    (pcC = "returned" /\ chooseOut.status = "ok") =>
        IF Resolvable(chooseIn) THEN chooseOut.ch = chooseIn.preferred_id
        ELSE IsFallbackOf(chooseOut.ch, chooseIn.guild)

\* C10 amended: with an explicit (non-zero) channel id the result is that
\* channel when it resolves and no channel when it does not, the fallbacks
\* are not tried; without one the result is the system channel, otherwise a
\* lowest-position text channel, otherwise the first channel that can create
\* invites, otherwise no channel.
C10_FallbackOnlyWithoutExplicitId ==
    (pcC = "returned" /\ chooseOut.status = "ok") =>
        IF chooseIn.preferred_id \notin {None, 0}
        THEN chooseOut.ch = IF Resolvable(chooseIn) THEN chooseIn.preferred_id ELSE None
        ELSE IsFallbackOf(chooseOut.ch, chooseIn.guild)

\* C10 witness: an explicit id that does not resolve, in a guild with a system
\* channel: no channel is returned
C10_Witness ==
    /\ pcC = "returned"
    /\ chooseIn.preferred_id \notin {None, 0}
    /\ ~Resolvable(chooseIn)
    /\ chooseIn.guild.system_channel # None
    /\ chooseOut = [status |-> "ok", ch |-> None]

\* number of occurrences of r in the sequence s
CountIn(s, r) == Cardinality({i \in 1..Len(s) : s[i] = r})

Elements(s) == {s[i] : i \in 1..Len(s)}

\* out holds exactly the invites of src that are not revoked (all of them with
\* include_revoked), each as often as src holds it
IsFilterOf(out, src, include_revoked) ==
    \A r \in Elements(src) \cup Elements(out) :
        CountIn(out, r) = IF include_revoked \/ ~r.revoked THEN CountIn(src, r) ELSE 0

\* ascending by channel name, then by code
IsOrdered(out) ==
    \A i, j \in 1..Len(out) :
        i < j =>
            \/ out[i].channel_name < out[j].channel_name
            \/ (out[i].channel_name = out[j].channel_name /\ out[i].code <= out[j].code)

\* C11: when creation was requested and no channel was resolved, or the
\* creation call ended with Forbidden or HTTPException, `done` is True (exit
\* code 0 when main() returns), created_invite is None and results["invites"]
\* is exactly the fetched list, filtered and sorted.
C11_CreationFailureStillSucceeds ==
    createRes \in {"no_channel", "Forbidden", "HTTPException"} =>
        /\ args.create
        /\ done = "true"
        /\ results.created_invite = <<>>
        /\ IsFilterOf(results.invites, fetched, args.include_revoked)
        /\ IsOrdered(results.invites)
        /\ EndedNormally => exitCode = 0

\* C11 witness: the creation call was Forbidden after two invites were fetched
\* out of order; the run ended with exit code 0 and both invites listed
C11_Witness ==
    /\ createRes = "Forbidden"
    /\ Len(fetched) = 2
    /\ Len(results.invites) = 2
    /\ results.invites # fetched
    /\ EndedNormally
    /\ exitCode = 0

\* C12: whenever the creation call succeeded, created_invite is the record of
\* the new invite, that record is in results["invites"], and the invite list
\* was fetched once, before the creation.
C12_CreatedInviteIsListed ==
    createRes = "ok" =>
        /\ done = "true"
        /\ Len(invites) = Len(fetched) + 1
        /\ SubSeq(invites, 1, Len(fetched)) = fetched
        /\ results.created_invite = <<invite_record(invites[Len(invites)])>>
        /\ \E i \in 1..Len(results.invites) :
              results.invites[i] = invite_record(invites[Len(invites)])
        /\ calls = <<"invites", "create_invite">>

\* C12 witness: the invite fetch was Forbidden, the creation succeeded, and the
\* new invite is the one listed invite of the ended run
C12_Witness ==
    /\ createRes = "ok"
    /\ fetchRes = "Forbidden"
    /\ Len(results.invites) = 1
    /\ results.created_invite = <<results.invites[1]>>
    /\ EndedNormally
    /\ exitCode = 0

\* C13: when the invites handler has resolved True, results["invites"] holds
\* exactly the fetched-plus-created invites that are not revoked (all with
\* --include-revoked), ascending by channel name and then code; results is
\* written only when no creation is pending any more.
C13_FilteredAndSorted ==
    /\ (tool = "invites" /\ done = "true") =>
          /\ invites = IF createRes = "ok"
                       THEN Append(fetched, invites[Len(invites)]) ELSE fetched
          /\ IsFilterOf(results.invites, invites, args.include_revoked)
          /\ IsOrdered(results.invites)
    /\ results # EmptyResults => (pcH = "finished" /\ done = "true")

\* C13 witness: two invites fetched, one of them revoked and dropped, one
\* created; the created one sorts before the fetched one
C13_Witness ==
    /\ tool = "invites"
    /\ done = "true"
    /\ ~args.include_revoked
    /\ createRes = "ok"
    /\ Len(fetched) = 2
    /\ Len(results.invites) = 2
    /\ results.invites[1] = invite_record(invites[3])
    /\ results.invites[1].channel_name < results.invites[2].channel_name

\* C14: in every run, once on_ready has run to its end `done` is resolved, and
\* it is resolved only by the step that ends the handler; no step of the
\* program changes a resolved `done`, so it is resolved exactly once.
C14_ResolvedExactlyOnce ==
    /\ []((pcH = "finished") <=> (done # "pending"))
    /\ [][/\ done # "pending" => done' = done
          /\ done' # done => (pcH # "finished" /\ pcH' = "finished")]_vars

\* C14 witness: the guild was not resolved, the handler resolved False and
\* that outcome is the one main() read at the end of the run
C14_Witness ==
    /\ tool = "invites"
    /\ guild = "unresolved"
    /\ pcH = "finished"
    /\ done = "false"
    /\ EndedNormally
    /\ exitCode = 1

\* C15: client.close() is invoked only by main(), after asyncio.wait({done}),
\* that is, only when `done` is resolved and the ready handler has ended; no
\* step of the handler closes the session.
C15_CloseOnlyAfterResolution ==
    [][(closeCount' # closeCount \/ (session' = "closed" /\ session # "closed")) =>
          /\ done # "pending"
          /\ done' = done
          /\ pcH \in {"finished"}
          /\ pcH' = pcH
          /\ pcMain = "wait"
          /\ pcMain' = "await_task"]_vars

\* C15 witness: a purge handler resolved False on a setup failure and main()
\* then closed the session
C15_Witness ==
    /\ tool = "purge"
    /\ dmRes = "HTTPException"
    /\ done = "false"
    /\ closeCount = 1
    /\ session = "closed"
    /\ pcMain = "await_task"

\* number of diagnostics the ready handler has printed to stderr so far
Diagnostics ==
    stats.failed
    + (IF userRes \in {"NotFound", "HTTPException"} THEN 1 ELSE 0)
    + (IF dmRes \in {"HTTPException", "GroupChannel"} THEN 1 ELSE 0)
    + (IF guild = "unresolved" /\ done = "false" THEN 1 ELSE 0)
    + (IF fetchRes = "HTTPException" THEN 1 ELSE 0)
    + (IF createRes \in {"no_channel", "Forbidden", "HTTPException"} THEN 1 ELSE 0)

\* C16: the final output is printed only after client.close() and after the
\* connection task has ended; what the task raised is discarded (the exit
\* status depends on `done` alone); the handler's diagnostics are all printed
\* before the close.
C16_SummaryAfterTeardown ==
    /\ [](summary => /\ closeCount = 1
                     /\ session = "closed"
                     /\ taskState \in {"returned0", "raised"})
    /\ [](EndedNormally => /\ exitCode = ExitCodeOf(tool, done)
                           /\ summary = (exitCode = 0))
    /\ [][Diagnostics' # Diagnostics => (closeCount = 0 /\ closeCount' = 0 /\ ~summary')]_vars

\* C16 witness: a purge run printed a diagnostic for a failed deletion, the
\* connection task raised during the shutdown, and the summary was printed
C16_Witness ==
    /\ tool = "purge"
    /\ stats.failed > 0
    /\ Diagnostics > 0
    /\ taskState = "raised"
    /\ session = "closed"
    /\ summary
    /\ exitCode = 0

\* indices of the cached text channels of g
TextIdx(g) == {j \in 1..Len(g.channels) : g.channels[j].kind = "text"}

\* C17: with no explicit channel id and no system channel, for every guild
\* with at least one text channel, the channel returned is the text channel
\* with the minimum position, and among those of that position the one with
\* the smallest id.
C17_LowestPositionThenId ==
    (/\ pcC = "returned"
     /\ chooseIn.preferred_id \in {None, 0}
     /\ chooseIn.guild.system_channel = None
     /\ TextIdx(chooseIn.guild) # {}) =>
        /\ chooseOut.status = "ok"
        /\ \E j \in TextIdx(chooseIn.guild) :
              LET cs == chooseIn.guild.channels
              IN  /\ chooseOut.ch = cs[j].id
                  /\ \A k \in TextIdx(chooseIn.guild) :
                        \/ cs[j].position < cs[k].position
                        \/ (cs[j].position = cs[k].position /\ cs[j].id <= cs[k].id)

\* C17 witness: two text channels of the same position, the one with the
\* larger id first in the cache; the one with the smaller id is returned
C17_Witness ==
    /\ pcC = "returned"
    /\ chooseIn.preferred_id = None
    /\ chooseIn.guild.system_channel = None
    /\ Len(chooseIn.guild.channels) = 2
    /\ TextIdx(chooseIn.guild) = {1, 2}
    /\ chooseIn.guild.channels[1].position = chooseIn.guild.channels[2].position
    /\ chooseIn.guild.channels[1].id > chooseIn.guild.channels[2].id
    /\ chooseOut.ch = chooseIn.guild.channels[2].id

\* C18: after the guild was resolved, an invite fetch that ends with Forbidden
\* or HTTPException never resolves `done` False: the list is empty, the handler
\* goes on to the creation decision and resolves True (an exception captured
\* after the fetch can only come from the creation path); `done` is False
\* only when the guild was not resolved.
C18_FetchFailureIsNotFailure ==
    /\ fetchRes \in {"Forbidden", "HTTPException"} =>
          /\ guild = "found"
          /\ fetched = <<>>
          /\ done # "false"
          /\ pcH \in {"choose", "create"} => args.create
          /\ pcH = "finished" =>
                \/ done = "true"
                \/ (done = "exc" /\ args.create /\ createRes \in {"none", "other"})
          /\ (pcH = "finished" /\ ~args.create) =>
                (done = "true" /\ results = EmptyResults)
          /\ EndedNormally => exitCode = (IF done = "true" THEN 0 ELSE 1)
    /\ (tool = "invites" /\ done = "false") => guild = "unresolved"

\* C18 witness: the fetch ended with an HTTP error, nothing was to be created,
\* and the run ended with exit code 0 and an empty listing
C18_Witness ==
    /\ fetchRes = "HTTPException"
    /\ ~args.create
    /\ done = "true"
    /\ results.invites = <<>>
    /\ EndedNormally
    /\ exitCode = 0

\* C19: under fair scheduling, every run that has started the session
\* eventually exits with an exit code, whatever the connection loop does.
C19_EventuallyExits == (taskState # "none") ~> (pcMain = "exited")

====
